---- MODULE Spec2Model ----
(***************************************************************************)
(* Agent-session orchestration of the flight log app: the HTTP handlers    *)
(* handleExtract / handleChat (server/server.go), the orchestration runs   *)
(* BoardingPassExtractor.Extract and ChatHandler.Chat (ai/extractor.go and *)
(* ai/chat.go), their tools, their session event handlers and the SSE      *)
(* writer sendSSE.                                                         *)
(*                                                                         *)
(* One request is one "run".  Inside a run four execution contexts touch   *)
(* shared state: "H" the HTTP handler goroutine that also executes the     *)
(* orchestration, "S" the goroutine that sends the extraction prompt, "E"  *)
(* the agent runtime's event delivery and "T" the agent runtime's tool     *)
(* invocation.  The agent runtime itself (the Copilot SDK) and the         *)
(* document store are the environment.                                     *)
(***************************************************************************)
EXTENDS Integers, Sequences, FiniteSets, TLC

(***************************************************************************)
(* Bounds of the model.                                                    *)
(***************************************************************************)
\* events and tool invocations the agent runtime produces in one run
MaxAgentSteps == 2
\* the same, per run, when two runs are in flight together
MaxConcurrentSteps == 1

\* the same, in one chat run on its own
MaxChatSteps == 3

\* the requests the server handles (two, so that runs can be concurrent)
Runs == {1, 2}

(***************************************************************************)
(* Program constants.                                                      *)
(***************************************************************************)
\* ChatTimeout = 60 * time.Second, in seconds
ChatTimeout == 60
\* DefaultExtractionTimeout = 60 * time.Second, in seconds
DefaultExtractionTimeout == 60
\* the capacity of errCh: make(chan error, 1)
ErrChCap == 1

(***************************************************************************)
(* Inputs.                                                                 *)
(***************************************************************************)
\* the users behind the requests: the two requests come from different users
User(r) == IF r = 1 THEN "a@x.io" ELSE "b@x.io"
\* values of the X-User-Email header of request r ("" is a missing header)
Emails(r) == {"", User(r)}
\* values of ChatRequest.Message ("" is a missing message)
Messages == {"", "my flights"}
\* the query texts the agent passes to query_flights ("" when it omits the field)
Queries == {"", "SELECT 1", "SELECT 2"}
\* contents of agent events; a nil *string is the empty sequence
Contents == {<<>>, <<"c1">>, <<"c2">>}
\* errors the SDK reports for CreateSession and Send
SdkErrors == {"rpc failed"}

\* SaveFlightParams values the agent passes to capture_flight_details
Params(email, flightNumber, seat) ==
    [Email |-> email, FlightNumber |-> flightNumber, Airline |-> "United",
     FromAirport |-> "SFO", ToAirport |-> "JFK", DepartureDate |-> "2026-01-25",
     DepartureTime |-> "14:30", Seat |-> seat, Gate |-> "", Passenger |-> "P"]

FlightParams == {Params("a@x.io", "UA 1", "12A"), Params("b@x.io", "UA 2", ""),
                 Params("", "", "")}

\* sdk.SessionEvent values the agent runtime delivers
Event(type, content, toolName) == [Type |-> type, Content |-> content, ToolName |-> toolName]

Events ==
    {Event("assistant.message", c, <<>>) : c \in Contents}
    \cup {Event("assistant.message_delta", c, <<>>) : c \in {<<>>, <<"c1">>}}
    \cup {Event("tool.execution_start", <<>>, n) : n \in {<<>>, <<"capture_flight_details">>}}
    \cup {Event("session.idle", <<>>, <<>>)}
    \cup {Event("session.error", c, <<>>) : c \in {<<>>, <<"c1">>}}

\* the goroutines that write to one response stream
Writers == {"H", "S", "E", "T"}

VARIABLES
    kind,            \* "none" | "chat" | "extract": the endpoint the request hit
    email,           \* the X-User-Email header of the request
    pc,              \* position of the handler goroutine H
    session,         \* "none" | "active" | "destroyed": the agent session of the run
    destroyed,       \* how many times session.Destroy() ran
    sent,            \* session.Send delivered the prompt to the agent
    extractedFlight, \* Extract's *cosmosdb.BoardingPass: <<>> is nil
    generatedQuery,  \* Chat's generatedQuery string
    finalResponse,   \* Chat's finalResponse string
    responseCh,      \* Chat's responseCh: "open" | "closed"
    errCh,           \* Extract's errCh (capacity 1): the queued errors
    ctxDone,         \* r.Context() is cancelled
    timer,           \* time.After(timeout): "unset" | "running" | "fired"
    result,          \* what Extract / Chat returned
    sendTask,        \* position of the goroutine S that sends the extraction prompt
    toolPc,          \* position of the tool invocation T in flight
    toolArg,         \* the parameters of the tool invocation in flight
    toolRet,         \* what the last tool invocation returned to the agent
    wbuf,            \* per writer: the frame whose `event:` line is written, `data:` line not yet
    stream,          \* the lines written to the response stream
    budget,          \* the events and tool invocations the agent runtime may still produce
    panics,          \* close of the closed responseCh
    firstFired,      \* history: which of completion, cancel, timeout fired first
    clients,         \* the requests that have yet to arrive
    captures,        \* history: the parameters of the capturing invocations, in order
    message,         \* ChatRequest.Message of the request
    access,          \* history: the last access to the run state shared by the agent's
                     \* callbacks and the waiter, <<>> when there was none
    heard,           \* history: the agent events the event handler of the run acted on
    storeCalls       \* history: the query and the partition key of every ExecuteRawQuery

vars == <<kind, email, pc, session, destroyed, sent, extractedFlight, generatedQuery,
          finalResponse, responseCh, errCh, ctxDone, timer, result, sendTask, toolPc,
          toolArg, toolRet, wbuf, stream, budget, panics, firstFired, captures, clients,
          message, access, heard, storeCalls>>

(***************************************************************************)
(* Values.                                                                 *)
(***************************************************************************)
\* the zero value of what a run returns: nothing returned yet
NoResult == [kind |-> "none", err |-> "", flight |-> <<>>, message |-> "", query |-> ""]

ErrResult(k, e) == [kind |-> k, err |-> e, flight |-> <<>>, message |-> "", query |-> ""]

\* time.Duration's String() for a whole number of seconds below one hour
DurationString(d) ==
    IF d >= 60 THEN ToString(d \div 60) \o "m" \o ToString(d % 60) \o "s"
    ELSE ToString(d) \o "s"

\* history: goroutine by performed op ("read" | "write") on variable v of the run,
\* holding the run's mutex or not
Access(v, by, op, locked) == <<[var |-> v, by |-> by, op |-> op, locked |-> locked]>>

\* ctx.Err() of a cancelled context
ContextCanceled == "context canceled"

\* json.Marshal of a *cosmosdb.BoardingPass
FlightJSON(f) ==
    "{id:" \o f.ID \o ",email:" \o f.Email \o ",flightNumber:" \o f.FlightNumber
    \o ",airline:" \o f.Airline \o ",fromAirport:" \o f.FromAirport
    \o ",toAirport:" \o f.ToAirport \o ",departureDate:" \o f.DepartureDate
    \o ",departureTime:" \o f.DepartureTime \o ",seat:" \o f.Seat
    \o ",gate:" \o f.Gate \o ",passenger:" \o f.Passenger
    \o ",createdAt:" \o f.CreatedAt \o "}"

\* json.Marshal of a *ChatResponse: query is omitempty, flights are never set
ChatJSON(msg, query) ==
    "{message:" \o msg \o (IF query # "" THEN ",query:" \o query ELSE "") \o "}"

(***************************************************************************)
(* sendSSE: two writes and a flush, with no lock around them.              *)
(***************************************************************************)
EventLine(w, t) == [w |-> w, part |-> "event", type |-> t, data |-> ""]
DataLine(w, t, d) == [w |-> w, part |-> "data", type |-> t, data |-> d]

\* fmt.Fprintf(w, "event: %s\n", event): the first write of sendSSE
sendSSE(r, w, event, data) ==
    /\ stream' = [stream EXCEPT ![r] = Append(@, EventLine(w, event))]
    /\ wbuf' = [wbuf EXCEPT ![r][w] = <<[type |-> event, data |-> data]>>]

\* the writer is not inside sendSSE
Idle(r, w) == wbuf[r][w] = <<>>

\* fmt.Fprintf(w, "data: %s\n\n", data); flusher.Flush(): the rest of sendSSE
SendSSEData(r, w) ==
    /\ wbuf[r][w] # <<>>
    /\ stream' = [stream EXCEPT ![r] = Append(@, DataLine(w, wbuf[r][w][1].type, wbuf[r][w][1].data))]
    /\ wbuf' = [wbuf EXCEPT ![r][w] = <<>>]
    /\ UNCHANGED <<kind, email, message, access, pc, session, destroyed, sent, extractedFlight,
                   generatedQuery, finalResponse, responseCh, errCh, ctxDone, timer,
                   result, sendTask, toolPc, toolArg, toolRet, budget, panics,
                   firstFired, captures, heard, storeCalls, clients>>

(***************************************************************************)
(* Init: the server is up and no request has arrived.                      *)
(***************************************************************************)
InitRuns ==
    /\ kind = [r \in Runs |-> "none"]
    /\ email = [r \in Runs |-> ""]
    /\ pc = [r \in Runs |-> "init"]
    /\ session = [r \in Runs |-> "none"]
    /\ destroyed = [r \in Runs |-> 0]
    /\ sent = [r \in Runs |-> FALSE]
    /\ extractedFlight = [r \in Runs |-> <<>>]
    /\ generatedQuery = [r \in Runs |-> ""]
    /\ finalResponse = [r \in Runs |-> ""]
    /\ responseCh = [r \in Runs |-> "open"]
    /\ errCh = [r \in Runs |-> <<>>]
    /\ ctxDone = [r \in Runs |-> FALSE]
    /\ timer = [r \in Runs |-> "unset"]
    /\ result = [r \in Runs |-> NoResult]
    /\ sendTask = [r \in Runs |-> "none"]
    /\ toolPc = [r \in Runs |-> "idle"]
    /\ toolArg = [r \in Runs |-> <<>>]
    /\ toolRet = [r \in Runs |-> "none"]
    /\ wbuf = [r \in Runs |-> [w \in Writers |-> <<>>]]
    /\ stream = [r \in Runs |-> <<>>]
    /\ panics = [r \in Runs |-> 0]
    /\ firstFired = [r \in Runs |-> "none"]
    /\ captures = [r \in Runs |-> <<>>]
    /\ message = [r \in Runs |-> ""]
    /\ access = [r \in Runs |-> <<>>]
    /\ heard = [r \in Runs |-> <<>>]
    /\ storeCalls = [r \in Runs |-> <<>>]

\* one request arrives
Init ==
    /\ InitRuns
    /\ clients = 1
    /\ budget = [r \in Runs |-> MaxAgentSteps]

\* history: the first of completion, cancellation and timeout to fire
Fired(r, signal) == IF firstFired[r] = "none" THEN signal ELSE firstFired[r]

(***************************************************************************)
(* The HTTP handlers up to the call of Extract / Chat.                     *)
(***************************************************************************)
\* requests are numbered in the order they arrive
Arrived(r) == \A q \in Runs : q < r => pc[q] # "init"

\* handleExtract up to the call of s.extractor.Extract: the header check, the SSE
\* headers and the first step event, written while H is the only writer
handleExtract(r, em) ==
    /\ pc[r] = "init"
    /\ Arrived(r)
    /\ clients > 0
    /\ clients' = clients - 1
    /\ kind' = [kind EXCEPT ![r] = "extract"]
    /\ email' = [email EXCEPT ![r] = em]
    /\ IF em = ""
       THEN /\ pc' = [pc EXCEPT ![r] = "rejected"]
            /\ UNCHANGED stream
       ELSE /\ pc' = [pc EXCEPT ![r] = "create"]
            /\ stream' = [stream EXCEPT ![r] =
                   <<EventLine("H", "step"), DataLine("H", "step", "step 1 completed")>>]
    /\ UNCHANGED <<message, access, session, destroyed, sent, extractedFlight, generatedQuery,
                   finalResponse, responseCh, errCh, ctxDone, timer, result, sendTask,
                   toolPc, toolArg, toolRet, wbuf, budget, panics, firstFired, captures, heard, storeCalls>>

\* a handleChat that lacks the check of req.Message
handleChatNoMessageCheck(r, em, msg) ==
    /\ pc[r] = "init"
    /\ Arrived(r)
    /\ clients > 0
    /\ clients' = clients - 1
    /\ kind' = [kind EXCEPT ![r] = "chat"]
    /\ email' = [email EXCEPT ![r] = em]
    /\ message' = [message EXCEPT ![r] = IF em = "" THEN @ ELSE msg]
    /\ pc' = [pc EXCEPT ![r] = IF em = "" THEN "rejected" ELSE "create"]
    /\ UNCHANGED <<access, session, destroyed, sent, extractedFlight, generatedQuery,
                   finalResponse, responseCh, errCh, ctxDone, timer, result, sendTask,
                   toolPc, toolArg, toolRet, wbuf, stream, budget, panics, firstFired,
                   captures, heard, storeCalls>>

\* handleChat up to the call of s.chatHandler.Chat: the header check, the decoding
\* of the body (skipped when the header is missing) and the message check
handleChat(r, em, msg) ==
    /\ pc[r] = "init"
    /\ Arrived(r)
    /\ clients > 0
    /\ clients' = clients - 1
    /\ kind' = [kind EXCEPT ![r] = "chat"]
    /\ email' = [email EXCEPT ![r] = em]
    /\ message' = [message EXCEPT ![r] = IF em = "" THEN @ ELSE msg]
    /\ pc' = [pc EXCEPT ![r] = IF em = "" \/ msg = "" THEN "rejected" ELSE "create"]
    /\ UNCHANGED <<access, session, destroyed, sent, extractedFlight, generatedQuery,
                   finalResponse, responseCh, errCh, ctxDone, timer, result, sendTask,
                   toolPc, toolArg, toolRet, wbuf, stream, budget, panics, firstFired,
                   captures, heard, storeCalls>>

(***************************************************************************)
(* The signals of the completion race.                                     *)
(***************************************************************************)
\* the caller goes away: r.Context() is cancelled
Cancel(r) ==
    /\ pc[r] \notin {"init", "rejected"}
    /\ ~ctxDone[r]
    /\ ctxDone' = [ctxDone EXCEPT ![r] = TRUE]
    /\ firstFired' = [firstFired EXCEPT ![r] = Fired(r, "cancel")]
    /\ UNCHANGED <<kind, email, message, access, pc, session, destroyed, sent, extractedFlight,
                   generatedQuery, finalResponse, responseCh, errCh, timer, result,
                   sendTask, toolPc, toolArg, toolRet, wbuf, stream, budget, panics,
                   captures, heard, storeCalls, clients>>

\* the channel of time.After(ChatTimeout) / time.After(DefaultExtractionTimeout)
\* becomes ready
TimerFire(r) ==
    /\ timer[r] = "running"
    /\ timer' = [timer EXCEPT ![r] = "fired"]
    /\ firstFired' = [firstFired EXCEPT ![r] = Fired(r, "timeout")]
    /\ UNCHANGED <<kind, email, message, access, pc, session, destroyed, sent, extractedFlight,
                   generatedQuery, finalResponse, responseCh, errCh, ctxDone, result,
                   sendTask, toolPc, toolArg, toolRet, wbuf, stream, budget, panics,
                   captures, heard, storeCalls, clients>>

(***************************************************************************)
(* ChatHandler.Chat.                                                       *)
(***************************************************************************)
\* a Destroy that an early return on cancellation skips
DestroyUnlessCancelled(r) ==
    /\ session' = [session EXCEPT ![r] = IF ctxDone[r] THEN @ ELSE "destroyed"]
    /\ destroyed' = [destroyed EXCEPT ![r] = IF ctxDone[r] THEN @ ELSE @ + 1]

\* the deferred session.Destroy() of a run that returns
Destroy(r) ==
    /\ session' = [session EXCEPT ![r] = "destroyed"]
    /\ destroyed' = [destroyed EXCEPT ![r] = @ + 1]

\* h.client.CreateSession in Chat: an error returns at once, before the defer
ChatCreate(r) ==
    /\ pc[r] = "create"
    /\ kind[r] = "chat"
    /\ \/ /\ \E e \in SdkErrors :
               result' = [result EXCEPT ![r] =
                   ErrResult("createerr", "failed to create session: " \o e)]
          /\ pc' = [pc EXCEPT ![r] = "returned"]
          /\ UNCHANGED session
       \/ /\ session' = [session EXCEPT ![r] = "active"]
          /\ pc' = [pc EXCEPT ![r] = "send"]
          /\ UNCHANGED result
    /\ UNCHANGED <<kind, email, message, access, destroyed, sent, extractedFlight, generatedQuery,
                   finalResponse, responseCh, errCh, ctxDone, timer, sendTask, toolPc,
                   toolArg, toolRet, wbuf, stream, budget, panics, firstFired, captures, heard, storeCalls, clients>>

\* session.Send in Chat, called by the orchestrator itself; then the select is
\* entered and time.After(ChatTimeout) starts
ChatSend(r) ==
    /\ pc[r] = "send"
    /\ \/ /\ \E e \in SdkErrors :
               result' = [result EXCEPT ![r] =
                   ErrResult("senderr", "failed to send message: " \o e)]
          /\ Destroy(r)
          /\ pc' = [pc EXCEPT ![r] = "returned"]
          /\ UNCHANGED <<sent, timer>>
       \/ /\ sent' = [sent EXCEPT ![r] = TRUE]
          /\ timer' = [timer EXCEPT ![r] = "running"]
          /\ pc' = [pc EXCEPT ![r] = "wait"]
          /\ UNCHANGED <<result, session, destroyed>>
    /\ UNCHANGED <<kind, email, message, access, extractedFlight, generatedQuery, finalResponse,
                   responseCh, errCh, ctxDone, sendTask, toolPc, toolArg, toolRet,
                   wbuf, stream, budget, panics, firstFired, captures, heard, storeCalls, clients>>

\* a select with a default case: Chat returns what it has without waiting for idle
ChatOutcomesNoWait(r) ==
    (IF ctxDone[r] THEN {ErrResult("cancel", ContextCanceled)} ELSE {})
    \cup (IF timer[r] = "fired"
          THEN {ErrResult("timeout", "chat timed out after " \o DurationString(ChatTimeout))}
          ELSE {})
    \cup {[kind |-> "ok", err |-> "", flight |-> <<>>,
           message |-> finalResponse[r], query |-> generatedQuery[r]]}

\* a select that lacks the ctx.Done() case
ChatOutcomesNoCancel(r) ==
    (IF timer[r] = "fired"
     THEN {ErrResult("timeout", "chat timed out after " \o DurationString(ChatTimeout))}
     ELSE {})
    \cup (IF responseCh[r] = "closed"
          THEN {[kind |-> "ok", err |-> "", flight |-> <<>>,
                 message |-> finalResponse[r], query |-> generatedQuery[r]]}
          ELSE {})

\* the cases of Chat's select that are ready, each with what it returns
ChatOutcomes(r) ==
    (IF ctxDone[r] THEN {ErrResult("cancel", ContextCanceled)} ELSE {})
    \cup (IF timer[r] = "fired"
          THEN {ErrResult("timeout", "chat timed out after " \o DurationString(ChatTimeout))}
          ELSE {})
    \cup (IF responseCh[r] = "closed"
          THEN {[kind |-> "ok", err |-> "", flight |-> <<>>,
                 message |-> finalResponse[r], query |-> generatedQuery[r]]}
          ELSE {})

\* Chat's select: one ready case is taken, the deferred Destroy runs, Chat returns;
\* the responseCh case reads finalResponse and then generatedQuery, with no lock
ChatWait(r) ==
    /\ pc[r] = "wait"
    /\ kind[r] = "chat"
    /\ \E o \in ChatOutcomes(r) :
         /\ result' = [result EXCEPT ![r] = o]
         /\ access' = [access EXCEPT ![r] =
                IF o.kind = "ok" THEN Access("generatedQuery", "H", "read", FALSE) ELSE @]
    /\ Destroy(r)
    /\ pc' = [pc EXCEPT ![r] = "returned"]
    /\ UNCHANGED <<kind, email, message, sent, extractedFlight, generatedQuery, finalResponse,
                   responseCh, errCh, ctxDone, timer, sendTask, toolPc, toolArg,
                   toolRet, wbuf, stream, budget, panics, firstFired, captures, heard, storeCalls, clients>>

\* the agent runtime delivers the events of a live session that was sent a prompt,
\* one at a time, and reports the session idle only when no tool is running
Delivers(r, ev) ==
    /\ session[r] = "active"
    /\ sent[r]
    /\ Idle(r, "E")
    /\ ev.Type = "session.idle" => toolPc[r] = "idle"

\* history: the event handler of a run of kind k hears event ev; events that carry
\* nothing for the handler are left out
Heard(k, ev) ==
    \/ ev.Type = "session.idle"
    \/ ev.Type \in {"assistant.message", "assistant.message_delta", "session.error"}
          /\ ev.Content # <<>>
    \/ k = "extract" /\ ev.Type \in {"assistant.message_delta", "tool.execution_start"}

\* a handler that takes a message delta for the answer
ChatOnEventDeltaIsAnswer(r, ev) ==
    /\ kind[r] = "chat"
    /\ Delivers(r, ev)
    /\ budget[r] > 0
    /\ budget' = [budget EXCEPT ![r] = @ - 1]
    /\ CASE ev.Type = "assistant.message" /\ ev.Content # <<>> ->
              /\ finalResponse' = [finalResponse EXCEPT ![r] = ev.Content[1]]
              /\ UNCHANGED <<responseCh, panics, firstFired, wbuf, stream>>
         [] ev.Type = "assistant.message_delta" /\ ev.Content # <<>> ->
              /\ sendSSE(r, "E", "delta", ev.Content[1])
              /\ finalResponse' = [finalResponse EXCEPT ![r] = ev.Content[1]]
              /\ UNCHANGED <<responseCh, panics, firstFired>>
         [] ev.Type = "session.idle" /\ responseCh[r] = "open" ->
              /\ responseCh' = [responseCh EXCEPT ![r] = "closed"]
              /\ firstFired' = [firstFired EXCEPT ![r] = Fired(r, "completion")]
              /\ UNCHANGED <<finalResponse, panics, wbuf, stream>>
         [] ev.Type = "session.idle" /\ responseCh[r] = "closed" ->
              /\ panics' = [panics EXCEPT ![r] = @ + 1]
              /\ UNCHANGED <<finalResponse, responseCh, firstFired, wbuf, stream>>
         [] ev.Type = "session.error" /\ ev.Content # <<>> ->
              /\ sendSSE(r, "E", "error", ev.Content[1])
              /\ UNCHANGED <<finalResponse, responseCh, panics, firstFired>>
         [] OTHER ->
              UNCHANGED <<finalResponse, responseCh, panics, firstFired, wbuf, stream>>
    /\ access' = [access EXCEPT ![r] =
           IF ev.Type = "assistant.message" /\ ev.Content # <<>>
           THEN Access("finalResponse", "E", "write", FALSE) ELSE @]
    /\ heard' = [heard EXCEPT ![r] = IF Heard("chat", ev) THEN Append(@, ev) ELSE @]
    /\ UNCHANGED <<kind, email, message, pc, session, destroyed, sent, extractedFlight,
                   generatedQuery, errCh, ctxDone, timer, result, sendTask, toolPc,
                   toolArg, toolRet, captures, storeCalls, clients>>

\* the session.On handler of Chat, run by the agent runtime for one event; it
\* assigns finalResponse with no lock
ChatOnEvent(r, ev) ==
    /\ kind[r] = "chat"
    /\ Delivers(r, ev)
    /\ budget[r] > 0
    /\ budget' = [budget EXCEPT ![r] = @ - 1]
    /\ CASE ev.Type = "assistant.message" /\ ev.Content # <<>> ->
              /\ finalResponse' = [finalResponse EXCEPT ![r] = ev.Content[1]]
              /\ UNCHANGED <<responseCh, panics, firstFired, wbuf, stream>>
         [] ev.Type = "assistant.message_delta" /\ ev.Content # <<>> ->
              /\ sendSSE(r, "E", "delta", ev.Content[1])
              /\ UNCHANGED <<finalResponse, responseCh, panics, firstFired>>
         [] ev.Type = "session.idle" /\ responseCh[r] = "open" ->
              /\ responseCh' = [responseCh EXCEPT ![r] = "closed"]
              /\ firstFired' = [firstFired EXCEPT ![r] = Fired(r, "completion")]
              /\ UNCHANGED <<finalResponse, panics, wbuf, stream>>
         [] ev.Type = "session.idle" /\ responseCh[r] = "closed" ->
              /\ panics' = [panics EXCEPT ![r] = @ + 1]
              /\ UNCHANGED <<finalResponse, responseCh, firstFired, wbuf, stream>>
         [] ev.Type = "session.error" /\ ev.Content # <<>> ->
              /\ sendSSE(r, "E", "error", ev.Content[1])
              /\ UNCHANGED <<finalResponse, responseCh, panics, firstFired>>
         [] OTHER ->
              UNCHANGED <<finalResponse, responseCh, panics, firstFired, wbuf, stream>>
    /\ access' = [access EXCEPT ![r] =
           IF ev.Type = "assistant.message" /\ ev.Content # <<>>
           THEN Access("finalResponse", "E", "write", FALSE) ELSE @]
    /\ heard' = [heard EXCEPT ![r] = IF Heard("chat", ev) THEN Append(@, ev) ELSE @]
    /\ UNCHANGED <<kind, email, message, pc, session, destroyed, sent, extractedFlight,
                   generatedQuery, errCh, ctxDone, timer, result, sendTask, toolPc,
                   toolArg, toolRet, captures, storeCalls, clients>>

\* the agent runtime invokes the query_flights tool of the session of run r, on a
\* goroutine of its own
QueryInvoke(r, q) ==
    /\ kind[r] = "chat"
    /\ session[r] = "active"
    /\ sent[r]
    /\ toolPc[r] = "idle"
    /\ budget[r] > 0
    /\ budget' = [budget EXCEPT ![r] = @ - 1]
    /\ toolArg' = [toolArg EXCEPT ![r] = <<q>>]
    /\ toolPc' = [toolPc EXCEPT ![r] = "called"]
    /\ UNCHANGED <<kind, email, message, access, pc, session, destroyed, sent, extractedFlight,
                   generatedQuery, finalResponse, responseCh, errCh, ctxDone, timer,
                   result, sendTask, toolRet, wbuf, stream, panics, firstFired,
                   captures, heard, storeCalls, clients>>

\* the tool's first statement: callback("query", params.Query)
QueryEmit(r) ==
    /\ kind[r] = "chat"
    /\ toolPc[r] = "called"
    /\ sendSSE(r, "T", "query", toolArg[r][1])
    /\ toolPc' = [toolPc EXCEPT ![r] = "store"]
    /\ UNCHANGED <<kind, email, message, access, pc, session, destroyed, sent, extractedFlight,
                   generatedQuery, finalResponse, responseCh, errCh, ctxDone, timer,
                   result, sendTask, toolArg, toolRet, budget, panics, firstFired,
                   captures, heard, storeCalls, clients>>

\* one cell shared by all runs, as a package-level variable would be
SharedCell(r) == 1

\* the variables a run's closures captured: generatedQuery, finalResponse and
\* responseCh are locals of that call of Chat, extractedFlight and errCh locals of
\* that call of Extract, and the callback writes to that request's ResponseWriter
Cell(r) == r

\* a query tool that keeps the first query text it was given
StoreQueryFirstWins(old, q) == IF old # "" THEN old ELSE q

\* what the query tool leaves in generatedQuery
StoreQuery(old, q) == q

\* mu.Lock(); *generatedQuery = params.Query; mu.Unlock()
QueryStore(r) ==
    /\ kind[r] = "chat"
    /\ toolPc[r] = "store"
    /\ Idle(r, "T")
    /\ generatedQuery' = [generatedQuery EXCEPT ![Cell(r)] = StoreQuery(@, toolArg[r][1])]
    /\ captures' = [captures EXCEPT ![r] = Append(@, toolArg[r][1])]
    /\ access' = [access EXCEPT ![r] = Access("generatedQuery", "T", "write", TRUE)]
    /\ toolPc' = [toolPc EXCEPT ![r] = "exec"]
    /\ UNCHANGED <<kind, email, message, pc, session, destroyed, sent, extractedFlight,
                   finalResponse, responseCh, errCh, ctxDone, timer, result, sendTask,
                   toolArg, toolRet, wbuf, stream, budget, panics, firstFired, heard,
                   storeCalls, clients>>

\* a query tool that takes the partition key from the query text of the agent
QueryPartitionKeyFromAgent(r, q) == IF q = "SELECT 2" THEN User(2) ELSE email[r]

\* the email the query tool of run r passes to ExecuteRawQuery: the parameter of
\* that call of Chat, captured by the tool's closure
QueryPartitionKey(r, q) == email[r]

\* history: ExecuteRawQuery(ctx, query, email) builds the partition key from email
StoreCall(q, pk) == [query |-> q, partitionKey |-> pk]

\* a query tool that reports the store's failure to the caller as an error event
QueryExecReportsError(r) ==
    /\ toolPc[r] = "exec"
    /\ \/ /\ ~ctxDone[r]
          /\ toolRet' = [toolRet EXCEPT ![r] = "results"]
          /\ UNCHANGED <<wbuf, stream>>
       \/ /\ toolRet' = [toolRet EXCEPT ![r] = "error"]
          /\ sendSSE(r, "T", "error", "query execution failed")
       \/ /\ ctxDone[r]
          /\ toolRet' = [toolRet EXCEPT ![r] = "canceled"]
          /\ sendSSE(r, "T", "error", "query execution failed")
    /\ storeCalls' = [storeCalls EXCEPT ![r] =
           Append(@, StoreCall(toolArg[r][1], QueryPartitionKey(r, toolArg[r][1])))]
    /\ toolPc' = [toolPc EXCEPT ![r] = "idle"]
    /\ toolArg' = [toolArg EXCEPT ![r] = <<>>]
    /\ UNCHANGED <<kind, email, message, access, pc, session, destroyed, sent,
                   extractedFlight, generatedQuery, finalResponse, responseCh, errCh,
                   ctxDone, timer, result, sendTask, budget, panics, firstFired,
                   captures, heard, clients>>

\* h.cosmosClient.ExecuteRawQuery(ctx, params.Query, email) and the tool's return:
\* the rows ("results"), or as the tool's error the store's own failure ("error")
\* or the failure of pager.NextPage(ctx) on a cancelled ctx ("canceled")
QueryExec(r) ==
    /\ toolPc[r] = "exec"
    /\ \/ /\ ~ctxDone[r]
          /\ toolRet' = [toolRet EXCEPT ![r] = "results"]
       \/ toolRet' = [toolRet EXCEPT ![r] = "error"]
       \/ /\ ctxDone[r]
          /\ toolRet' = [toolRet EXCEPT ![r] = "canceled"]
    /\ storeCalls' = [storeCalls EXCEPT ![r] =
           Append(@, StoreCall(toolArg[r][1], QueryPartitionKey(r, toolArg[r][1])))]
    /\ toolPc' = [toolPc EXCEPT ![r] = "idle"]
    /\ toolArg' = [toolArg EXCEPT ![r] = <<>>]
    /\ UNCHANGED <<kind, email, message, access, pc, session, destroyed, sent,
                   extractedFlight, generatedQuery, finalResponse, responseCh, errCh,
                   ctxDone, timer, result, sendTask, wbuf, stream, budget, panics,
                   firstFired, captures, heard, clients>>

(***************************************************************************)
(* BoardingPassExtractor.Extract.                                          *)
(***************************************************************************)
\* e.client.CreateSession in Extract; on success the send goroutine is started,
\* the ticker and time.After(DefaultExtractionTimeout) are created, the loop entered
ExtractCreate(r) ==
    /\ pc[r] = "create"
    /\ kind[r] = "extract"
    /\ \/ /\ \E e \in SdkErrors :
               result' = [result EXCEPT ![r] =
                   ErrResult("createerr", "failed to create session: " \o e)]
          /\ pc' = [pc EXCEPT ![r] = "returned"]
          /\ UNCHANGED <<session, sendTask, timer>>
       \/ /\ session' = [session EXCEPT ![r] = "active"]
          /\ sendTask' = [sendTask EXCEPT ![r] = "start"]
          /\ timer' = [timer EXCEPT ![r] = "running"]
          /\ pc' = [pc EXCEPT ![r] = "wait"]
          /\ UNCHANGED result
    /\ UNCHANGED <<kind, email, message, access, destroyed, sent, extractedFlight, generatedQuery,
                   finalResponse, responseCh, errCh, ctxDone, toolPc, toolArg, toolRet,
                   wbuf, stream, budget, panics, firstFired, captures, heard, storeCalls, clients>>

\* the send goroutine: callback("step", step 2 active)
SendTaskStep(r) ==
    /\ sendTask[r] = "start"
    /\ sendSSE(r, "S", "step", "step 2 active")
    /\ sendTask' = [sendTask EXCEPT ![r] = "send"]
    /\ UNCHANGED <<kind, email, message, access, pc, session, destroyed, sent, extractedFlight,
                   generatedQuery, finalResponse, responseCh, errCh, ctxDone, timer,
                   result, toolPc, toolArg, toolRet, budget, panics, firstFired, captures, heard, storeCalls, clients>>

\* a send goroutine that only logs the failure of session.Send
SendTaskSendDropsError(r) ==
    /\ sendTask[r] = "send"
    /\ Idle(r, "S")
    /\ \/ /\ session[r] = "active"
          /\ sent' = [sent EXCEPT ![r] = TRUE]
       \/ UNCHANGED sent
    /\ sendTask' = [sendTask EXCEPT ![r] = "done"]
    /\ UNCHANGED <<kind, email, message, access, pc, session, destroyed, extractedFlight,
                   generatedQuery, finalResponse, responseCh, errCh, ctxDone, timer,
                   result, toolPc, toolArg, toolRet, wbuf, stream, budget, panics,
                   firstFired, captures, heard, storeCalls, clients>>

\* an errCh made without a buffer
ErrChUnbuffered(r) == pc[r] = "wait" /\ errCh[r] = <<>>

\* errCh <- err can proceed: the buffer of errCh has room
ErrChHasRoom(r) == Len(errCh[r]) < ErrChCap

\* the send goroutine: session.Send, and errCh <- err when it fails, which blocks
\* while errCh is full
SendTaskSend(r) ==
    /\ sendTask[r] = "send"
    /\ Idle(r, "S")
    /\ \/ /\ session[r] = "active"
          /\ sent' = [sent EXCEPT ![r] = TRUE]
          /\ UNCHANGED errCh
       \/ /\ ErrChHasRoom(r)
          /\ \E e \in SdkErrors :
               errCh' = [errCh EXCEPT ![r] = Append(@, "failed to send message: " \o e)]
          /\ UNCHANGED sent
    /\ sendTask' = [sendTask EXCEPT ![r] = "done"]
    /\ UNCHANGED <<kind, email, message, access, pc, session, destroyed, extractedFlight, generatedQuery,
                   finalResponse, responseCh, ctxDone, timer, result, toolPc, toolArg,
                   toolRet, wbuf, stream, budget, panics, firstFired, captures, heard, storeCalls, clients>>

\* a ctx.Done() case that returns the timeout error
ExtractOutcomesWrongError(r) ==
    (IF ctxDone[r]
     THEN {ErrResult("timeout", "extraction timed out after "
                                \o DurationString(DefaultExtractionTimeout))}
     ELSE {})
    \cup (IF errCh[r] # <<>> THEN {ErrResult("senderr", Head(errCh[r]))} ELSE {})
    \cup (IF timer[r] = "fired"
          THEN {ErrResult("timeout", "extraction timed out after "
                                     \o DurationString(DefaultExtractionTimeout))}
          ELSE {})
    \cup (IF extractedFlight[r] # <<>>
          THEN {[kind |-> "ok", err |-> "", flight |-> extractedFlight[r],
                 message |-> "", query |-> ""]}
          ELSE {})

\* a loop that lacks the timeout case
ExtractOutcomesNoTimeout(r) ==
    (IF ctxDone[r] THEN {ErrResult("cancel", ContextCanceled)} ELSE {})
    \cup (IF errCh[r] # <<>> THEN {ErrResult("senderr", Head(errCh[r]))} ELSE {})
    \cup (IF extractedFlight[r] # <<>>
          THEN {[kind |-> "ok", err |-> "", flight |-> extractedFlight[r],
                 message |-> "", query |-> ""]}
          ELSE {})

\* the cases of Extract's select that are ready, each with what it returns; the
\* ticker case returns only when extractedFlight is not nil (otherwise it loops)
ExtractOutcomes(r) ==
    (IF ctxDone[r] THEN {ErrResult("cancel", ContextCanceled)} ELSE {})
    \cup (IF errCh[r] # <<>> THEN {ErrResult("senderr", Head(errCh[r]))} ELSE {})
    \cup (IF timer[r] = "fired"
          THEN {ErrResult("timeout", "extraction timed out after "
                                     \o DurationString(DefaultExtractionTimeout))}
          ELSE {})
    \cup (IF extractedFlight[r] # <<>>
          THEN {[kind |-> "ok", err |-> "", flight |-> extractedFlight[r],
                 message |-> "", query |-> ""]}
          ELSE {})

\* one round of Extract's loop that returns: the deferred ticker.Stop() and
\* session.Destroy() run; the ticker case reads extractedFlight under extractMu
ExtractWait(r) ==
    /\ pc[r] = "wait"
    /\ kind[r] = "extract"
    /\ \E o \in ExtractOutcomes(r) :
         /\ result' = [result EXCEPT ![r] = o]
         /\ errCh' = [errCh EXCEPT ![r] = IF o.kind = "senderr" THEN Tail(@) ELSE @]
         /\ access' = [access EXCEPT ![r] =
                IF o.kind = "ok" THEN Access("extractedFlight", "H", "read", TRUE) ELSE @]
    /\ Destroy(r)
    /\ pc' = [pc EXCEPT ![r] = "returned"]
    /\ UNCHANGED <<kind, email, message, sent, extractedFlight, generatedQuery, finalResponse,
                   responseCh, ctxDone, timer, sendTask, toolPc, toolArg, toolRet,
                   wbuf, stream, budget, panics, firstFired, captures, heard, storeCalls, clients>>

\* a handler that completes the extraction on session idle, with an empty flight
handleSessionEventIdleCompletes(r, ev) ==
    /\ kind[r] = "extract"
    /\ Delivers(r, ev)
    /\ budget[r] > 0
    /\ budget' = [budget EXCEPT ![r] = @ - 1]
    /\ CASE ev.Type = "tool.execution_start" ->
              sendSSE(r, "E", "step",
                      "step 3 active Tool: "
                      \o (IF ev.ToolName # <<>> THEN ev.ToolName[1] ELSE "tool"))
         [] ev.Type = "session.error" /\ ev.Content # <<>> ->
              sendSSE(r, "E", "error", ev.Content[1])
         [] OTHER -> UNCHANGED <<wbuf, stream>>
    /\ extractedFlight' = [extractedFlight EXCEPT ![r] =
           IF ev.Type = "session.idle" /\ @ = <<>>
           THEN <<[ID |-> "", Email |-> "", FlightNumber |-> "", Airline |-> "",
                   FromAirport |-> "", ToAirport |-> "", DepartureDate |-> "",
                   DepartureTime |-> "", Seat |-> "", Gate |-> "", Passenger |-> "",
                   CreatedAt |-> ""]>>
           ELSE @]
    /\ heard' = [heard EXCEPT ![r] = IF Heard("extract", ev) THEN Append(@, ev) ELSE @]
    /\ UNCHANGED <<kind, email, message, access, pc, session, destroyed, sent,
                   generatedQuery, finalResponse, responseCh, errCh,
                   ctxDone, timer, result, sendTask, toolPc, toolArg, toolRet, panics,
                   firstFired, captures, storeCalls, clients>>

\* handleSessionEvent, run by the agent runtime for one event
handleSessionEvent(r, ev) ==
    /\ kind[r] = "extract"
    /\ Delivers(r, ev)
    /\ budget[r] > 0
    /\ budget' = [budget EXCEPT ![r] = @ - 1]
    /\ CASE ev.Type = "tool.execution_start" ->
              sendSSE(r, "E", "step",
                      "step 3 active Tool: "
                      \o (IF ev.ToolName # <<>> THEN ev.ToolName[1] ELSE "tool"))
         [] ev.Type = "session.error" /\ ev.Content # <<>> ->
              sendSSE(r, "E", "error", ev.Content[1])
         [] OTHER -> UNCHANGED <<wbuf, stream>>
    /\ heard' = [heard EXCEPT ![r] = IF Heard("extract", ev) THEN Append(@, ev) ELSE @]
    /\ UNCHANGED <<kind, email, message, access, pc, session, destroyed, sent,
                   extractedFlight, generatedQuery, finalResponse, responseCh, errCh,
                   ctxDone, timer, result, sendTask, toolPc, toolArg, toolRet, panics,
                   firstFired, captures, storeCalls, clients>>

\* the agent runtime invokes the capture_flight_details tool of the session of
\* run r, on a goroutine of its own
CaptureInvoke(r, p) ==
    /\ kind[r] = "extract"
    /\ session[r] = "active"
    /\ sent[r]
    /\ toolPc[r] = "idle"
    /\ budget[r] > 0
    /\ budget' = [budget EXCEPT ![r] = @ - 1]
    /\ toolArg' = [toolArg EXCEPT ![r] = <<p>>]
    /\ toolPc' = [toolPc EXCEPT ![r] = "called"]
    /\ UNCHANGED <<kind, email, message, access, pc, session, destroyed, sent, extractedFlight,
                   generatedQuery, finalResponse, responseCh, errCh, ctxDone, timer,
                   result, sendTask, toolRet, wbuf, stream, panics, firstFired,
                   captures, heard, storeCalls, clients>>

\* the tool's first statement: callback("step", step 4 active)
CaptureEmit(r) ==
    /\ kind[r] = "extract"
    /\ toolPc[r] = "called"
    /\ sendSSE(r, "T", "step", "step 4 active")
    /\ toolPc' = [toolPc EXCEPT ![r] = "store"]
    /\ UNCHANGED <<kind, email, message, access, pc, session, destroyed, sent, extractedFlight,
                   generatedQuery, finalResponse, responseCh, errCh, ctxDone, timer,
                   result, sendTask, toolArg, toolRet, budget, panics, firstFired,
                   captures, heard, storeCalls, clients>>

\* a capture that fills in a seat the agent left empty
NewBoardingPassDefaultSeat(p) ==
    [ID |-> "", Email |-> p.Email, FlightNumber |-> p.FlightNumber,
     Airline |-> p.Airline, FromAirport |-> p.FromAirport, ToAirport |-> p.ToAirport,
     DepartureDate |-> p.DepartureDate, DepartureTime |-> p.DepartureTime,
     Seat |-> IF p.Seat = "" THEN "unassigned" ELSE p.Seat, Gate |-> p.Gate,
     Passenger |-> p.Passenger, CreatedAt |-> ""]

\* flight := &cosmosdb.BoardingPass{...}: the fields of the parameters, ID and
\* CreatedAt left at their zero value
NewBoardingPass(p) ==
    [ID |-> "", Email |-> p.Email, FlightNumber |-> p.FlightNumber,
     Airline |-> p.Airline, FromAirport |-> p.FromAirport, ToAirport |-> p.ToAirport,
     DepartureDate |-> p.DepartureDate, DepartureTime |-> p.DepartureTime,
     Seat |-> p.Seat, Gate |-> p.Gate, Passenger |-> p.Passenger, CreatedAt |-> ""]

\* what the capture tool leaves in *result
StoreFlight(old, p) == <<NewBoardingPass(p)>>

\* mu.Lock(); *result = flight; mu.Unlock(); return "captured"
CaptureStore(r) ==
    /\ kind[r] = "extract"
    /\ toolPc[r] = "store"
    /\ Idle(r, "T")
    /\ extractedFlight' = [extractedFlight EXCEPT ![Cell(r)] = StoreFlight(@, toolArg[r][1])]
    /\ captures' = [captures EXCEPT ![r] = Append(@, toolArg[r][1])]
    /\ firstFired' = [firstFired EXCEPT ![r] = Fired(r, "completion")]
    /\ toolRet' = [toolRet EXCEPT ![r] = "captured"]
    /\ toolPc' = [toolPc EXCEPT ![r] = "idle"]
    /\ access' = [access EXCEPT ![r] = Access("extractedFlight", "T", "write", TRUE)]
    /\ toolArg' = [toolArg EXCEPT ![r] = <<>>]
    /\ UNCHANGED <<kind, email, message, pc, session, destroyed, sent, generatedQuery,
                   finalResponse, responseCh, errCh, ctxDone, timer, result, sendTask,
                   wbuf, stream, budget, panics, heard, storeCalls, clients>>

(***************************************************************************)
(* The HTTP handlers after Extract / Chat returned.                        *)
(***************************************************************************)
\* an error branch that lacks its return and falls through to the done event
HandlerErrorFallsThrough(r) ==
    /\ pc[r] = "returned"
    /\ result[r].kind # "ok"
    /\ sendSSE(r, "H", "error", result[r].err)
    /\ pc' = [pc EXCEPT ![r] = "payload"]
    /\ UNCHANGED <<kind, email, message, access, session, destroyed, sent, extractedFlight,
                   generatedQuery, finalResponse, responseCh, errCh, ctxDone, timer,
                   result, sendTask, toolPc, toolArg, toolRet, budget, panics,
                   firstFired, captures, heard, storeCalls, clients>>

\* if err != nil { sendSSE(w, flusher, "error", err.Error()); return }
HandlerError(r) ==
    /\ pc[r] = "returned"
    /\ result[r].kind # "ok"
    /\ sendSSE(r, "H", "error", result[r].err)
    /\ pc' = [pc EXCEPT ![r] = "last"]
    /\ UNCHANGED <<kind, email, message, access, session, destroyed, sent, extractedFlight,
                   generatedQuery, finalResponse, responseCh, errCh, ctxDone, timer,
                   result, sendTask, toolPc, toolArg, toolRet, budget, panics,
                   firstFired, captures, heard, storeCalls, clients>>

\* sendSSE(w, flusher, "extracted", flightJSON) / sendSSE(w, flusher, "response", responseJSON)
HandlerPayload(r) ==
    /\ pc[r] = "returned"
    /\ result[r].kind = "ok"
    /\ IF kind[r] = "extract"
       THEN sendSSE(r, "H", "extracted", FlightJSON(result[r].flight[1]))
       ELSE sendSSE(r, "H", "response", ChatJSON(result[r].message, result[r].query))
    /\ pc' = [pc EXCEPT ![r] = "payload"]
    /\ UNCHANGED <<kind, email, message, access, session, destroyed, sent, extractedFlight,
                   generatedQuery, finalResponse, responseCh, errCh, ctxDone, timer,
                   result, sendTask, toolPc, toolArg, toolRet, budget, panics,
                   firstFired, captures, heard, storeCalls, clients>>

\* sendSSE(w, flusher, "done", "")
HandlerDone(r) ==
    /\ pc[r] = "payload"
    /\ Idle(r, "H")
    /\ sendSSE(r, "H", "done", "")
    /\ pc' = [pc EXCEPT ![r] = "last"]
    /\ UNCHANGED <<kind, email, message, access, session, destroyed, sent, extractedFlight,
                   generatedQuery, finalResponse, responseCh, errCh, ctxDone, timer,
                   result, sendTask, toolPc, toolArg, toolRet, budget, panics,
                   firstFired, captures, heard, storeCalls, clients>>

\* the handler returns: the response is complete and net/http cancels r.Context()
HandlerReturn(r) ==
    /\ pc[r] = "last"
    /\ Idle(r, "H")
    /\ pc' = [pc EXCEPT ![r] = "finished"]
    /\ ctxDone' = [ctxDone EXCEPT ![r] = TRUE]
    /\ firstFired' = [firstFired EXCEPT ![r] = IF ctxDone[r] THEN @ ELSE Fired(r, "cancel")]
    /\ UNCHANGED <<kind, email, message, access, session, destroyed, sent, extractedFlight,
                   generatedQuery, finalResponse, responseCh, errCh, timer,
                   result, sendTask, toolPc, toolArg, toolRet, wbuf, stream, budget,
                   panics, captures, heard, storeCalls, clients>>

(***************************************************************************)
(* The specifications.                                                     *)
(***************************************************************************)
\* the steps of the server and of the agent runtime in run r
Step(r) ==
    \/ \E em \in Emails(r) : handleExtract(r, em)
    \/ \E em \in Emails(r), msg \in Messages : handleChat(r, em, msg)
    \/ ChatCreate(r)
    \/ ChatSend(r)
    \/ ChatWait(r)
    \/ \E ev \in Events : ChatOnEvent(r, ev)
    \/ \E q \in Queries : QueryInvoke(r, q)
    \/ QueryEmit(r)
    \/ QueryStore(r)
    \/ QueryExec(r)
    \/ ExtractCreate(r)
    \/ SendTaskStep(r)
    \/ SendTaskSend(r)
    \/ ExtractWait(r)
    \/ \E ev \in Events : handleSessionEvent(r, ev)
    \/ \E p \in FlightParams : CaptureInvoke(r, p)
    \/ CaptureEmit(r)
    \/ CaptureStore(r)
    \/ HandlerError(r)
    \/ HandlerPayload(r)
    \/ HandlerDone(r)
    \/ HandlerReturn(r)
    \/ \E w \in Writers : SendSSEData(r, w)

Next == \E r \in Runs : Step(r) \/ Cancel(r) \/ TimerFire(r)

\* one request: every interleaving of its goroutines, of the agent runtime and of
\* the cancellation and timeout signals
Spec == Init /\ [][Next]_vars

\* what the scheduling guarantees: a goroutine that can run does run (the
\* orchestrator's send and wait, the send goroutine and its write), a timer that was
\* started does fire; the caller need never go away and the agent need never act
Fairness ==
    \A r \in Runs :
        /\ WF_vars(ChatSend(r))
        /\ WF_vars(ChatWait(r))
        /\ WF_vars(ExtractWait(r))
        /\ WF_vars(TimerFire(r))
        /\ WF_vars(SendTaskStep(r))
        /\ WF_vars(SendSSEData(r, "S"))
        /\ WF_vars(SendTaskSend(r))

SpecLive == Init /\ [][Next]_vars /\ Fairness

\* two requests of different users in flight together, with no caller going away
\* and no timer firing
InitTwo ==
    /\ InitRuns
    /\ clients = 2
    /\ budget = [r \in Runs |-> MaxConcurrentSteps]

NextTwo == \E r \in Runs : Step(r)

SpecTwo == InitTwo /\ [][NextTwo]_vars

\* the steps of the server and of the agent runtime in a chat run
ChatStep(r) ==
    \/ \E em \in Emails(r), msg \in Messages : handleChat(r, em, msg)
    \/ ChatCreate(r)
    \/ ChatSend(r)
    \/ ChatWait(r)
    \/ \E ev \in Events : ChatOnEvent(r, ev)
    \/ \E q \in Queries : QueryInvoke(r, q)
    \/ QueryEmit(r)
    \/ QueryStore(r)
    \/ QueryExec(r)
    \/ HandlerError(r)
    \/ HandlerPayload(r)
    \/ HandlerDone(r)
    \/ HandlerReturn(r)
    \/ \E w \in Writers : SendSSEData(r, w)

\* one chat request, whose agent takes up to MaxChatSteps steps
InitChat ==
    /\ InitRuns
    /\ clients = 1
    /\ budget = [r \in Runs |-> MaxChatSteps]

NextChat == \E r \in Runs : ChatStep(r) \/ Cancel(r) \/ TimerFire(r)

SpecChat == InitChat /\ [][NextChat]_vars

(***************************************************************************)
(* Reading the response stream.                                            *)
(***************************************************************************)
\* the positions of the `event:` lines of type t on the stream of run r
EventsAt(r, t) ==
    {i \in 1..Len(stream[r]) : stream[r][i].part = "event" /\ stream[r][i].type = t}

\* the positions of the `data:` lines of writer w carrying d for an event of type t
DataAt(r, w, t, d) ==
    {i \in 1..Len(stream[r]) : stream[r][i] = DataLine(w, t, d)}

\* Extract / Chat of run r has returned
Returned(r) == result[r].kind # "none"

(***************************************************************************)
(* C1.  A run whose session was created destroys it exactly once, before   *)
(* it returns, on every exit path (success, send failure, timeout,        *)
(* cancellation); a run whose session creation failed destroys nothing.    *)
(***************************************************************************)
C1_SessionDestroyedOnce ==
    \A r \in Runs :
        /\ ~Returned(r) => destroyed[r] = 0 /\ session[r] # "destroyed"
        /\ result[r].kind = "createerr" => destroyed[r] = 0 /\ session[r] = "none"
        /\ result[r].kind \in {"ok", "senderr", "timeout", "cancel"} =>
               destroyed[r] = 1 /\ session[r] = "destroyed"

\* a run left its wait through cancellation and its session is destroyed
C1_Witness ==
    \E r \in Runs : result[r].kind = "cancel" /\ destroyed[r] = 1 /\ pc[r] = "finished"

(***************************************************************************)
(* C2.  On the stream of a run that returned a success payload there is    *)
(* exactly one done event and nothing is written after it.                 *)
(***************************************************************************)
C2_DoneIsLast ==
    \A r \in Runs :
        result[r].kind = "ok" =>
            /\ Cardinality(EventsAt(r, "done")) <= 1
            /\ pc[r] = "finished" => Cardinality(EventsAt(r, "done")) = 1
            /\ \A i \in EventsAt(r, "done") :
                   \A j \in (i + 1)..Len(stream[r]) : stream[r][j] = DataLine("H", "done", "")

(***************************************************************************)
(* C3.  A run that the timeout timer decided returns an error naming the   *)
(* timeout duration, the handler writes an error event carrying it, and no *)
(* done, extracted or response event is ever on that stream.               *)
(***************************************************************************)
C3_TimeoutIsError ==
    \A r \in Runs :
        result[r].kind = "timeout" =>
            /\ result[r].err = (IF kind[r] = "chat"
                                THEN "chat timed out after 1m0s"
                                ELSE "extraction timed out after 1m0s")
            /\ EventsAt(r, "done") = {}
            /\ EventsAt(r, "extracted") = {}
            /\ EventsAt(r, "response") = {}
            /\ pc[r] \in {"last", "finished"} =>
                   \E i \in EventsAt(r, "error") : stream[r][i].w = "H"
            /\ pc[r] = "finished" => DataAt(r, "H", "error", result[r].err) # {}

\* the handler of a timed-out chat run has written its error event and returned
C3_Witness ==
    \E r \in Runs :
        /\ kind[r] = "chat"
        /\ result[r].kind = "timeout"
        /\ pc[r] = "finished"
        /\ DataAt(r, "H", "error", "chat timed out after 1m0s") # {}

(***************************************************************************)
(* The completion race.                                                    *)
(***************************************************************************)
\* the completion signal of run r has fired: idle closed responseCh (Chat), the
\* capture tool filled extractedFlight (Extract)
Completion(r) ==
    IF kind[r] = "chat" THEN responseCh[r] = "closed" ELSE extractedFlight[r] # <<>>

\* the outcome that signal sig decides
OutcomeOf(sig) ==
    CASE sig = "completion" -> "ok"
      [] sig = "cancel" -> "cancel"
      [] sig = "timeout" -> "timeout"
      [] OTHER -> "none"

\* the cases of the wait of run r that are ready
ReadyCases(r) == IF kind[r] = "chat" THEN ChatOutcomes(r) ELSE ExtractOutcomes(r)

\* the handler goroutine of run r leaves its wait in this step
LeavesWait(r) == pc[r] = "wait" /\ pc'[r] # "wait"

\* what run r returned is one outcome, and its signal has fired
OutcomeJustified(r) ==
    /\ result[r].kind \in {"none", "ok", "cancel", "timeout", "senderr", "createerr"}
    /\ result[r].kind = "ok" <=> (Returned(r) /\ result[r].err = "")
    /\ result[r].kind = "ok" =>
           /\ Completion(r)
           /\ kind[r] = "extract" => result[r].flight # <<>>
    /\ result[r].kind # "ok" => result[r].flight = <<>> /\ result[r].message = ""
    /\ result[r].kind = "cancel" => ctxDone[r] /\ result[r].err = ContextCanceled
    /\ result[r].kind = "timeout" => timer[r] = "fired"
    /\ result[r].kind \in {"senderr", "createerr"} => result[r].err # ""

(***************************************************************************)
(* C4 as stated.  Each run returns exactly one outcome; the first of       *)
(* completion, cancellation and timeout to fire decides it; a signal that  *)
(* fires later never changes it.                                           *)
(***************************************************************************)
C4_FirstToFireDecides ==
    [][\A r \in Runs :
          /\ result'[r].kind \in {"ok", "cancel", "timeout"} =>
                 result'[r].kind = OutcomeOf(firstFired'[r])
          /\ Returned(r) => result'[r] = result[r]]_vars

(***************************************************************************)
(* C4 as amended.  Each run returns exactly one outcome out of success     *)
(* payload, cancellation, timeout, send and session-creation error; a      *)
(* signal that has fired when the wait is evaluated decides it, which need *)
(* not be the first one to have fired; a signal that fires later never     *)
(* changes or adds to the outcome already returned.                        *)
(***************************************************************************)
C4_OneOutcome ==
    [][\A r \in Runs :
          /\ OutcomeJustified(r)'
          /\ Returned(r) => result'[r] = result[r]]_vars

\* an extraction run returned its payload; a later capture, the timer and the
\* cancellation have all fired and the payload is still the one returned
C4_Witness ==
    \E r \in Runs :
        /\ kind[r] = "extract"
        /\ result[r].kind = "ok"
        /\ extractedFlight[r] # result[r].flight
        /\ timer[r] = "fired"
        /\ ctxDone[r]

(***************************************************************************)
(* C5 as stated.  A run that leaves its wait after the cancellation signal *)
(* has fired returns the cancellation error; it returns the timeout error  *)
(* only if the timer fired first, and a success payload only when neither  *)
(* cancellation nor timeout has fired.                                     *)
(***************************************************************************)
C5_CancelWins ==
    [][\A r \in Runs :
          LeavesWait(r) =>
              /\ ctxDone[r] => result'[r].kind = "cancel"
              /\ result'[r].kind = "timeout" => firstFired[r] = "timeout"
              /\ result'[r].kind = "ok" => ~ctxDone[r] /\ timer[r] # "fired"]_vars

(***************************************************************************)
(* C5 as amended.  A run that leaves its wait after the cancellation       *)
(* signal has fired returns the cancellation error or the outcome of       *)
(* another case that is ready at that wait (completion, timeout, send      *)
(* failure); it returns the cancellation error only if the signal has      *)
(* fired, the timeout error only if the timer has fired and a success      *)
(* payload only if completion has occurred.                                *)
(***************************************************************************)
C5_ReadyCaseReturned ==
    [][\A r \in Runs :
          LeavesWait(r) =>
              /\ ctxDone[r] =>
                     \/ result'[r].kind = "cancel"
                     \/ result'[r].kind = "timeout" /\ timer[r] = "fired"
                     \/ result'[r].kind = "ok" /\ Completion(r)
                     \/ result'[r].kind = "senderr" /\ errCh[r] # <<>>
              /\ result'[r].kind = "cancel" => ctxDone[r]
              /\ result'[r].kind = "timeout" => timer[r] = "fired"
              /\ result'[r].kind = "ok" => Completion(r)]_vars

\* a run returned a success payload although the cancellation had fired first
C5_Witness ==
    \E r \in Runs : result[r].kind = "ok" /\ firstFired[r] = "cancel"

(***************************************************************************)
(* C6 as stated.  If the cancellation signal has fired while the run is    *)
(* waiting and no capture or idle has occurred, the run returns the        *)
(* cancellation outcome at its next step, the timer not having fired.      *)
(***************************************************************************)
C6_CancelReturnsNext ==
    [][\A r \in Runs :
          (LeavesWait(r) /\ ctxDone[r] /\ ~Completion(r) /\ timer[r] # "fired") =>
              result'[r].kind = "cancel"]_vars

\* cancellation is the only case of the wait of run r that is ready
CancelOnly(r) ==
    /\ pc[r] = "wait"
    /\ ctxDone[r]
    /\ ~Completion(r)
    /\ timer[r] # "fired"
    /\ errCh[r] = <<>>

(***************************************************************************)
(* C6 as amended.  If the cancellation signal has fired while the run is   *)
(* waiting, no capture or idle has occurred and neither the timeout nor a  *)
(* send failure is pending, the run can take its next step without the     *)
(* timer firing and that step returns the cancellation outcome.            *)
(***************************************************************************)
C6_CancelPrompt ==
    /\ [](\A r \in Runs : CancelOnly(r) => ReadyCases(r) # {})
    /\ [][\A r \in Runs :
             (LeavesWait(r) /\ CancelOnly(r)) => result'[r].kind = "cancel"]_vars

\* a run returned the cancellation error while its timer was still running and
\* nothing was captured
C6_Witness ==
    \E r \in Runs :
        /\ result[r].kind = "cancel"
        /\ pc[r] = "returned"
        /\ timer[r] = "running"
        /\ ~Completion(r)
        /\ errCh[r] = <<>>

(***************************************************************************)
(* The captured-result cell.                                               *)
(***************************************************************************)
\* the values of a sequence
Range(seq) == {seq[i] : i \in DOMAIN seq}

(***************************************************************************)
(* C7.  Once the captured-result cell of a run (extractedFlight in         *)
(* Extract, generatedQuery in Chat) holds a value, no step resets it to    *)
(* empty.                                                                  *)
(***************************************************************************)
C7_CellNeverReset ==
    [][\A r \in Runs :
          /\ extractedFlight[r] # <<>> => extractedFlight'[r] # <<>>
          /\ generatedQuery[r] # "" => generatedQuery'[r] # ""]_vars

(***************************************************************************)
(* C8.  When the capture tool is invoked again while the cell holds a      *)
(* value, the payload the run returns is the one of the first capturing    *)
(* invocation.                                                             *)
(***************************************************************************)
C8_FirstCaptureReturned ==
    \A r \in Runs :
        (kind[r] = "extract" /\ result[r].kind = "ok") =>
            result[r].flight = <<NewBoardingPass(captures[r][1])>>

(***************************************************************************)
(* C9.  The lines of two frames never interleave on a response stream:     *)
(* every `event:` line is followed at once by the `data:` line of the same *)
(* emit call.                                                              *)
(***************************************************************************)
C9_FramesSerialized ==
    \A r \in Runs :
        \A i \in 1..Len(stream[r]) :
            LET l == stream[r][i] IN
            /\ (l.part = "event" /\ i < Len(stream[r])) =>
                   /\ stream[r][i + 1].part = "data"
                   /\ stream[r][i + 1].w = l.w
                   /\ stream[r][i + 1].type = l.type
            /\ l.part = "data" => (i > 1 /\ stream[r][i - 1] = EventLine(l.w, l.type))

(***************************************************************************)
(* C10.  Two concurrent runs of different users each have their own        *)
(* session and their own cell: what a run's cell holds and what the run    *)
(* returns was written by a tool invocation of that same run, and a run    *)
(* that has not started has no session, no cell value and no stream.       *)
(***************************************************************************)
C10_RunsIsolated ==
    \A r \in Runs :
        /\ kind[r] # "extract" => extractedFlight[r] = <<>>
        /\ kind[r] # "chat" => generatedQuery[r] = ""
        /\ kind[r] = "extract" =>
               /\ extractedFlight[r] \in
                      {<<>>} \cup {<<NewBoardingPass(p)>> : p \in Range(captures[r])}
               /\ result[r].kind = "ok" =>
                      \E p \in Range(captures[r]) :
                          result[r].flight = <<NewBoardingPass(p)>>
        /\ kind[r] = "chat" =>
               /\ generatedQuery[r] \in {""} \cup Range(captures[r])
               /\ result[r].kind = "ok" =>
                      result[r].query \in {""} \cup Range(captures[r])
        /\ session[r] = "destroyed" => Returned(r)
        /\ pc[r] \in {"init", "rejected"} =>
               /\ session[r] = "none"
               /\ stream[r] = <<>>
               /\ wbuf[r] = [w \in Writers |-> <<>>]

\* the first run returned the flight its agent captured while the second run,
\* still waiting, holds a different flight captured by its own agent
C10_Witness ==
    /\ kind[1] = "extract" /\ kind[2] = "extract"
    /\ email[1] # email[2]
    /\ result[1].kind = "ok"
    /\ pc[2] = "wait"
    /\ session[2] = "active"
    /\ extractedFlight[2] # <<>>
    /\ extractedFlight[2] # result[1].flight

(***************************************************************************)
(* Failures.                                                               *)
(***************************************************************************)
\* the error a failed session.Send makes Chat and Extract return
SendFailures == {"failed to send message: " \o e : e \in SdkErrors}

(***************************************************************************)
(* C11 as stated.  A run that leaves its wait while a failure of the       *)
(* prompt send is queued for it returns the 'failed to send message'       *)
(* error.                                                                  *)
(***************************************************************************)
C11_SendFailureReturned ==
    [][\A r \in Runs :
          (LeavesWait(r) /\ errCh[r] # <<>>) => result'[r].kind = "senderr"]_vars

(***************************************************************************)
(* C11 as amended.  A failed prompt send is queued for the wait and stays  *)
(* a ready case of it while the run is waiting; the run returns the        *)
(* 'failed to send message' error unless the cancellation or the timeout   *)
(* is ready at the same wait; a run that returned the send error has one   *)
(* error event, written by the handler and carrying that error, and no     *)
(* done event on its stream.                                               *)
(***************************************************************************)
C11_SendFailureReported ==
    /\ [](\A r \in Runs :
             /\ (kind[r] = "extract" /\ sendTask[r] = "done" /\ ~sent[r]) =>
                    (errCh[r] # <<>> \/ result[r].kind = "senderr")
             /\ (pc[r] = "wait" /\ errCh[r] # <<>>) =>
                    /\ Head(errCh[r]) \in SendFailures
                    /\ ErrResult("senderr", Head(errCh[r])) \in ReadyCases(r)
             /\ result[r].kind = "senderr" =>
                    /\ result[r].err \in SendFailures
                    /\ EventsAt(r, "done") = {}
                    /\ Cardinality(EventsAt(r, "error")) <= 1
                    /\ pc[r] = "finished" =>
                           /\ Cardinality(EventsAt(r, "error")) = 1
                           /\ DataAt(r, "H", "error", result[r].err) # {})
    /\ [][\A r \in Runs :
             (LeavesWait(r) /\ errCh[r] # <<>> /\ ~ctxDone[r] /\ timer[r] # "fired") =>
                 result'[r].kind = "senderr"]_vars

\* the send goroutine of an extraction run failed to send, the run returned the
\* failure and its handler wrote the error event and returned
C11_Witness ==
    \E r \in Runs :
        /\ kind[r] = "extract"
        /\ sendTask[r] = "done"
        /\ result[r].kind = "senderr"
        /\ pc[r] = "finished"
        /\ DataAt(r, "H", "error", "failed to send message: rpc failed") # {}

(***************************************************************************)
(* C12.  Once the event handler has forwarded a session-error event as an  *)
(* error event, the wait of the run has an error outcome ready that is not *)
(* the timeout: the run returns an error without waiting for idle, capture *)
(* or the timeout.                                                         *)
(***************************************************************************)
C12_SessionErrorEndsRun ==
    \A r \in Runs :
        (pc[r] = "wait" /\ \E i \in EventsAt(r, "error") : stream[r][i].w = "E") =>
            \E o \in ReadyCases(r) : o.kind \notin {"ok", "timeout"}

(***************************************************************************)
(* C13.  A request with no X-User-Email header, or a chat request with an  *)
(* empty message, is rejected: it never has a session, never returns an    *)
(* outcome and nothing is ever written to its stream; every run that has a *)
(* session or a stream carries a user email and, for chat, a message.      *)
(***************************************************************************)
C13_InvalidRejected ==
    /\ [](\A r \in Runs :
             /\ (pc[r] # "init" /\ (email[r] = "" \/ (kind[r] = "chat" /\ message[r] = ""))) =>
                    pc[r] = "rejected"
             /\ pc[r] = "rejected" =>
                    /\ session[r] = "none"
                    /\ destroyed[r] = 0
                    /\ ~Returned(r)
                    /\ stream[r] = <<>>
                    /\ wbuf[r] = [w \in Writers |-> <<>>])
    /\ [][\A r \in Runs : pc[r] = "rejected" => pc'[r] = "rejected"]_vars

\* a chat request that carries the header and an empty message was rejected
C13_Witness ==
    \E r \in Runs :
        /\ kind[r] = "chat"
        /\ email[r] # ""
        /\ message[r] = ""
        /\ pc[r] = "rejected"
        /\ session[r] = "none"
        /\ stream[r] = <<>>

(***************************************************************************)
(* The query tool.                                                         *)
(***************************************************************************)
\* the query text of the most recent invocation of the query tool in run r that
\* has stored it, "" when there was none
LastQuery(r) == IF captures[r] = <<>> THEN "" ELSE captures[r][Len(captures[r])]

\* an invocation of the tool of run r has not yet stored what it was given
StoreInFlight(r) == toolPc[r] \in {"called", "store"}

ParamFields ==
    {"Email", "FlightNumber", "Airline", "FromAirport", "ToAirport", "DepartureDate",
     "DepartureTime", "Seat", "Gate", "Passenger"}

(***************************************************************************)
(* C15.  Whatever its parameters, empty strings included, an invocation of *)
(* the capture tool returns the captured acknowledgement, never an error,  *)
(* and leaves in the cell a flight whose every field is the parameter's    *)
(* value; an extraction whose seat is empty returns seat "".               *)
(***************************************************************************)
C15_CaptureNeverRejects ==
    /\ [][\A r \in Runs :
             (kind[r] = "extract" /\ toolPc[r] = "store" /\ toolPc'[r] # "store") =>
                 /\ toolRet'[r] = "captured"
                 /\ Len(extractedFlight'[r]) = 1
                 /\ \A f \in ParamFields : extractedFlight'[r][1][f] = toolArg[r][1][f]]_vars
    /\ [](\A r \in Runs : kind[r] = "extract" => toolRet[r] \in {"none", "captured"})

\* the agent captured a flight with no seat; the run returned it with seat "" and
\* the handler wrote the extracted and done events
C15_Witness ==
    \E r \in Runs :
        /\ kind[r] = "extract"
        /\ toolRet[r] = "captured"
        /\ result[r].kind = "ok"
        /\ result[r].flight[1].FlightNumber = "UA 2"
        /\ result[r].flight[1].Seat = ""
        /\ pc[r] = "finished"
        /\ EventsAt(r, "extracted") # {}
        /\ EventsAt(r, "error") = {}

(***************************************************************************)
(* C16.  The step in which the document store fails a query of the query   *)
(* tool hands the failure to the agent as the tool's error and does        *)
(* nothing else: the run returns nothing because of it, stays where it is, *)
(* no channel of its wait becomes ready and nothing is written to the      *)
(* stream; no error event is ever written by the tool.                     *)
(***************************************************************************)
C16_StoreFailureStaysInTool ==
    /\ [][\A r \in Runs :
             (toolPc[r] = "exec" /\ toolPc'[r] # "exec") =>
                 /\ toolRet'[r] \in {"results", "error", "canceled"}
                 /\ toolRet'[r] \in {"error", "canceled"} =>
                        /\ result'[r] = result[r]
                        /\ pc'[r] = pc[r]
                        /\ stream'[r] = stream[r]
                        /\ wbuf'[r] = wbuf[r]
                        /\ responseCh'[r] = responseCh[r]
                        /\ errCh'[r] = errCh[r]
                        /\ session'[r] = session[r]
                        /\ ReadyCases(r)' = ReadyCases(r)]_vars
    /\ [](\A r \in Runs : \A i \in EventsAt(r, "error") : stream[r][i].w # "T")

\* the store failed the query of a chat run; the agent went on to idle and the
\* run returned its answer, with no error event on the stream
C16_Witness ==
    \E r \in Runs :
        /\ kind[r] = "chat"
        /\ toolRet[r] = "error"
        /\ captures[r] # <<>>
        /\ result[r].kind = "ok"
        /\ pc[r] = "last"
        /\ ~ctxDone[r]
        /\ EventsAt(r, "error") = {}
        /\ EventsAt(r, "done") # {}

(***************************************************************************)
(* C17.  No response stream ever carries more than one error event.        *)
(***************************************************************************)
C17_OneErrorEvent ==
    \A r \in Runs : Cardinality(EventsAt(r, "error")) <= 1

(***************************************************************************)
(* C18.  Once a run has returned the cancellation outcome, nothing more is *)
(* written to its stream.                                                  *)
(***************************************************************************)
C18_NothingAfterCancel ==
    [][\A r \in Runs : result[r].kind = "cancel" => stream'[r] = stream[r]]_vars

(***************************************************************************)
(* C19.  The prompt is sent by a task other than the orchestrator: no step *)
(* of the orchestrator is the send call, so it reaches its wait without    *)
(* the send having returned, and after the session is created it returns   *)
(* only from its wait.                                                     *)
(***************************************************************************)
C19_SendIsSeparateTask ==
    [][\A r \in Runs :
          /\ sent'[r] # sent[r] => pc'[r] = pc[r]
          /\ (~Returned(r) /\ Returned(r)' /\ result'[r].kind # "createerr") =>
                 pc[r] = "wait"]_vars

(***************************************************************************)
(* C20.  Every read and every write of the run state shared by the agent's *)
(* callbacks and the waiter (extractedFlight, generatedQuery and           *)
(* finalResponse) is made holding the mutex of the run.                    *)
(***************************************************************************)
C20_AccessUnderLock ==
    \A r \in Runs : access[r] # <<>> => access[r][1].locked

(***************************************************************************)
(* The events the agent runtime delivered.                                 *)
(***************************************************************************)
\* the positions in heard[r] of the events of type t
HeardAt(r, t) == {i \in DOMAIN heard[r] : heard[r][i].Type = t}

\* the largest element of a non-empty set of numbers
Last(S) == CHOOSE i \in S : \A j \in S : j <= i

\* the smallest element of a non-empty set of numbers
First(S) == CHOOSE i \in S : \A j \in S : i <= j

\* the content of the most recent full assistant message among the first n events
\* heard by run r, "" when there is none
MessageWithin(r, n) ==
    LET I == {i \in HeardAt(r, "assistant.message") : i <= n}
    IN  IF I = {} THEN "" ELSE heard[r][Last(I)].Content[1]

\* no full assistant message followed the first session-idle event of run r
NoLateMessage(r) ==
    \A i \in HeardAt(r, "assistant.message") : i < First(HeardAt(r, "session.idle"))

(***************************************************************************)
(* C21 as stated.  A chat run that returned a payload heard a session-idle *)
(* event, and the message of the payload is the content of the most recent *)
(* full assistant message heard before that event, "" when there was none. *)
(***************************************************************************)
C21_MessageBeforeIdle ==
    \A r \in Runs :
        (kind[r] = "chat" /\ result[r].kind = "ok") =>
            /\ HeardAt(r, "session.idle") # {}
            /\ result[r].message = MessageWithin(r, First(HeardAt(r, "session.idle")))

(***************************************************************************)
(* C21 as amended.  A chat run returns a payload only after a session-idle *)
(* event; when no full assistant message was delivered between that event  *)
(* and the return, the message of the payload is the content of the most   *)
(* recent full assistant message delivered before the idle event, "" when  *)
(* there was none; message deltas never contribute to it.                  *)
(***************************************************************************)
C21_MessageBeforeIdleUnlessLate ==
    [][\A r \in Runs :
          (kind[r] = "chat" /\ LeavesWait(r) /\ result'[r].kind = "ok") =>
              /\ HeardAt(r, "session.idle") # {}
              /\ NoLateMessage(r) =>
                     result'[r].message =
                         MessageWithin(r, First(HeardAt(r, "session.idle")))]_vars

\* a chat run heard a full message, then a delta, then idle, and returned the
\* content of the full message
C21_Witness ==
    \E r \in Runs :
        /\ kind[r] = "chat"
        /\ Len(heard[r]) = 3
        /\ heard[r][1] = Event("assistant.message", <<"c2">>, <<>>)
        /\ heard[r][2] = Event("assistant.message_delta", <<"c1">>, <<>>)
        /\ heard[r][3].Type = "session.idle"
        /\ result[r].kind = "ok"
        /\ result[r].message = "c2"
        /\ pc[r] = "finished"

(***************************************************************************)
(* The events a client reads from the stream.                              *)
(***************************************************************************)
\* the type of the event a reader of the stream of run r dispatches at the `data:`
\* line at position i (a blank line follows it): the last `event:` line since the
\* previous dispatch, the default type when there is none
ReadType(r, i) ==
    LET E == {j \in 1..(i - 1) :
                 /\ stream[r][j].part = "event"
                 /\ \A k \in (j + 1)..(i - 1) : stream[r][k].part = "event"}
    IN  IF E = {} THEN "message" ELSE stream[r][Last(E)].type

\* the positions at which a reader of the stream of run r dispatches an event of type t
ReadAt(r, t) ==
    {i \in 1..Len(stream[r]) : stream[r][i].part = "data" /\ ReadType(r, i) = t}

\* the k-th smallest element of a set of numbers
Nth(S, k) == CHOOSE i \in S : Cardinality({j \in S : j <= i}) = k

(***************************************************************************)
(* C22.  Whenever the event handler is not in the middle of a frame, the   *)
(* delta events read from the stream of a chat run are the contents of the *)
(* message deltas the agent delivered, one each and in that order; the     *)
(* stream of an extraction run never has a delta event.                    *)
(***************************************************************************)
C22_DeltasTranslated ==
    \A r \in Runs :
        /\ (kind[r] = "chat" /\ Idle(r, "E")) =>
               LET D == ReadAt(r, "delta")
                   H == HeardAt(r, "assistant.message_delta")
               IN  /\ Cardinality(D) = Cardinality(H)
                   /\ \A k \in 1..Cardinality(D) :
                          stream[r][Nth(D, k)].data = heard[r][Nth(H, k)].Content[1]
        /\ kind[r] = "extract" => EventsAt(r, "delta") = {} /\ ReadAt(r, "delta") = {}

(***************************************************************************)
(* C23.  Every query the query tool of a chat run sends to the document    *)
(* store carries as partition key the X-User-Email header of the request   *)
(* that started the run, whatever the query text of the agent; only the    *)
(* text is the agent's.                                                    *)
(***************************************************************************)
C23_PartitionKeyIsCaller ==
    \A r \in Runs :
        /\ storeCalls[r] # <<>> => kind[r] = "chat"
        /\ Len(storeCalls[r]) <= Len(captures[r])
        /\ \A i \in DOMAIN storeCalls[r] :
               /\ storeCalls[r][i].partitionKey = User(r)
               /\ storeCalls[r][i].partitionKey = email[r]
               /\ storeCalls[r][i].query = captures[r][i]

\* the agents of two chat runs of different users sent the same query text to the
\* store, each under the email of its own caller
C23_Witness ==
    /\ storeCalls[1] = <<StoreCall("SELECT 2", "a@x.io")>>
    /\ storeCalls[2] = <<StoreCall("SELECT 2", "b@x.io")>>
    /\ pc[1] = "wait"
    /\ pc[2] = "wait"

(***************************************************************************)
(* C24.  The cancellation of the caller's context reaches the wait of the  *)
(* run only: the step that cancels it leaves the send task, the tool       *)
(* invocation in flight and the session as they are, and no tool           *)
(* invocation, its document-store query included, ever fails because of    *)
(* it.                                                                     *)
(***************************************************************************)
C24_CancelOnlyRace ==
    /\ [][\A r \in Runs :
             ctxDone'[r] # ctxDone[r] =>
                 /\ sendTask'[r] = sendTask[r]
                 /\ sent'[r] = sent[r]
                 /\ errCh'[r] = errCh[r]
                 /\ toolPc'[r] = toolPc[r]
                 /\ toolRet'[r] = toolRet[r]
                 /\ session'[r] = session[r]]_vars
    /\ [](\A r \in Runs : toolRet[r] # "canceled")

C26_NothingAfterHandler ==
    [][\A r \in Runs : pc[r] = "finished" => stream'[r] = stream[r]]_vars

(***************************************************************************)
(* C27.  The completion channel of a chat run is closed at most once: no   *)
(* session-idle event closes the channel that is already closed.           *)
(***************************************************************************)
C27_ClosedAtMostOnce ==
    \A r \in Runs : panics[r] = 0

(***************************************************************************)
(* C28.  The send goroutine of an extraction run always terminates: errCh  *)
(* is empty until the goroutine reports and holds at most the one report,  *)
(* so the report never waits for a receiver, also after the run returned.  *)
(***************************************************************************)
C28_SendTaskTerminates ==
    /\ \A r \in Runs : (sendTask[r] = "start") ~> (sendTask[r] = "done")
    /\ [](\A r \in Runs :
             /\ Len(errCh[r]) <= ErrChCap
             /\ sendTask[r] \in {"start", "send"} => errCh[r] = <<>>)

\* an extraction run timed out, its handler finished, and the send goroutine has
\* ended with its failure report left unread in errCh
C28_Witness ==
    \E r \in Runs :
        /\ kind[r] = "extract"
        /\ result[r].kind = "timeout"
        /\ pc[r] = "finished"
        /\ sendTask[r] = "done"
        /\ ~sent[r]
        /\ errCh[r] = <<"failed to send message: rpc failed">>

C30_EmailIsCaller ==
    \A r \in Runs :
        (kind[r] = "extract" /\ result[r].kind = "ok") =>
            result[r].flight[1].Email = email[r]

====
